---- MODULE Spec2Model ----
(***************************************************************************)
(* Model of the cheque crate (src/lib.rs): the Checker<T> wrapper around   *)
(* Option<T>, its Deref/DerefMut view, its two PartialEq impls, the four   *)
(* operator impls generated by impl_checked!, and the let_checked! macro.  *)
(*                                                                         *)
(* T is a two's-complement integer type of Bits bits, signed or unsigned   *)
(* (the crate is generic; the primitive integer types differ only in width *)
(* and signedness).  An Option<T> is a sequence of length 0 (None) or 1    *)
(* (Some(v)); Checker<T> is a newtype, so a Checker is its Option.         *)
(*                                                                         *)
(* A program using the crate is a scope of named bindings.  Each step      *)
(* expands let_checked!, evaluates `let lhs = lhs op rhs`, stores through  *)
(* deref_mut, reads through deref, or evaluates one of the == impls.       *)
(* `last` records the statement just executed and its operands; `hist`     *)
(* records, per binding, what unbounded-integer arithmetic says about the  *)
(* expression that produced it.                                            *)
(***************************************************************************)
EXTENDS Integers, Sequences, FiniteSets

VARIABLES signed, scope, hist, last

vars == <<signed, scope, hist, last>>

\* Width in bits of the modelled integer type T.
Bits == 3

\* The identifiers bound in the enclosing scope.
Names == {"a", "b"}

Ops == {"add", "sub", "mul", "div"}

RECURSIVE Pow2(_)
Pow2(n) == IF n = 0 THEN 1 ELSE 2 * Pow2(n - 1)

Modulus == Pow2(Bits)

TMin == IF signed THEN -Pow2(Bits - 1) ELSE 0

TMax == IF signed THEN Pow2(Bits - 1) - 1 ELSE Modulus - 1

T == TMin..TMax

None == <<>>

Some(v) == <<v>>

Abs(x) == IF x < 0 THEN -x ELSE x

\* Rust's integer `/`: the quotient truncated toward zero (b # 0).
TruncDiv(a, b) ==
  IF (a < 0) = (b < 0) THEN Abs(a) \div Abs(b) ELSE -(Abs(a) \div Abs(b))

\* The value a Bits-wide register holds after an operation whose
\* mathematical result is x (two's-complement wrap-around).
WrapT(x) == ((x - TMin) % Modulus) + TMin

----------------------------------------------------------------------------
(* The checked operations of the primitive integer types, which the        *)
(* num_traits Checked* traits forward to.                                  *)

\* An addition that reports the largest value of T as an overflow.
AddRejectsMax(l, r) ==
  IF l + r >= TMax \/ l + r < TMin THEN None ELSE Some(l + r)

\* An addition that wraps around instead of reporting the overflow.
WrappingAdd(l, r) == Some(WrapT(l + r))

\* CheckedAdd::checked_add: overflowing_add, then the overflow flag.
checked_add(l, r) ==
  LET a == WrapT(l + r)
      b == a # l + r
  IN  IF b THEN None ELSE Some(a)

\* A subtraction that wraps around instead of reporting the overflow.
WrappingSub(l, r) == Some(WrapT(l - r))

\* CheckedSub::checked_sub
checked_sub(l, r) ==
  LET a == WrapT(l - r)
      b == a # l - r
  IN  IF b THEN None ELSE Some(a)

\* A multiplication that reports a zero product as a failure.
MulRejectsZero(l, r) ==
  IF l * r = 0 \/ ~(TMin <= l * r /\ l * r <= TMax) THEN None ELSE Some(l * r)

\* A multiplication that wraps around instead of reporting the overflow.
WrappingMul(l, r) == Some(WrapT(l * r))

\* CheckedMul::checked_mul
checked_mul(l, r) ==
  LET a == WrapT(l * r)
      b == a # l * r
  IN  IF b THEN None ELSE Some(a)

\* A division that tests only for the zero divisor, and so lets MIN / -1
\* wrap around to MIN.
DivZeroOnly(l, r) == IF r = 0 THEN None ELSE Some(WrapT(TruncDiv(l, r)))

\* CheckedDiv::checked_div: None for a zero divisor and for MIN / -1.
checked_div(l, r) ==
  IF r = 0 \/ (signed /\ l = TMin /\ r = -1)
  THEN None
  ELSE Some(TruncDiv(l, r))

\* An instantiation list whose Div line names the multiplication.
WiredDivAsMul(op, l, r) ==
  CASE op = "add" -> checked_add(l, r)
    [] op = "sub" -> checked_sub(l, r)
    [] op = "mul" -> checked_mul(l, r)
    [] op = "div" -> checked_mul(l, r)

\* The four impl_checked! instantiations: which checked operation each
\* operator calls.
checked_fn(op, l, r) ==
  CASE op = "add" -> checked_add(l, r)
    [] op = "sub" -> checked_sub(l, r)
    [] op = "mul" -> checked_mul(l, r)
    [] op = "div" -> checked_div(l, r)

----------------------------------------------------------------------------
(* Checker<T>                                                              *)

\* The tuple-struct constructor Checker(opt).
Checker(opt) == opt

\* Option::and_then with the closure |l| l.checked_fn(&rhs).
and_then(opt, op, rhs) ==
  IF opt = None THEN None ELSE checked_fn(op, opt[1], rhs)

\* An operator that unwraps an absent right operand as zero.
OpCheckerDefaultRhs(op, self, rhs) ==
  IF self # None
  THEN Checker(checked_fn(op, self[1], IF rhs = None THEN 0 ELSE rhs[1]))
  ELSE Checker(None)

\* impl $Vanilla<Self> for Checker<T>
OpChecker(op, self, rhs) ==
  IF self # None /\ rhs # None
  THEN Checker(checked_fn(op, self[1], rhs[1]))
  ELSE Checker(None)

\* impl $Vanilla<T> for Checker<T>
OpRaw(op, self, rhs) == Checker(and_then(self, op, rhs))

\* An equality that compares an absent Checker as zero.
EqRawDefault(self, other) ==
  (IF self = None THEN 0 ELSE self[1]) = other

\* impl PartialEq<T> for Checker<T>
EqRaw(self, other) == self = Some(other)

\* impl PartialEq<Option<T>> for Checker<T>
EqOpt(self, other) == self = other

----------------------------------------------------------------------------
(* Deref / DerefMut                                                        *)

\* impl Deref for Checker<T>: the view of field 0.
deref(self) == self

\* impl DerefMut for Checker<T>, followed by the store `*c = new`.
deref_mut(self, new) == new

----------------------------------------------------------------------------
(* let_checked!                                                            *)

\* Longest invocation, in tokens, that names every binding once: a longer
\* one repeats an identifier, and so wraps a Checker, not a T.
MaxTokens == 2 * Cardinality(Names)

\* The numeric literals a program writes as raw operands (the doc examples
\* use `b / 0` and `(a - b) + 1`); every other raw operand is a binding.
Lits == {0, 1}

Comma == ","

Token == Names \cup {Comma}

RECURSIVE SeqsUpTo(_, _)
SeqsUpTo(S, n) ==
  IF n = 0 THEN {<<>>}
  ELSE LET shorter == SeqsUpTo(S, n - 1)
       IN  shorter \cup {Append(s, x) : s \in {t \in shorter : Len(t) = n - 1}, x \in S}

\* First arm, $($ident:ident),* : identifiers separated by commas.
Arm1Matches(toks) ==
  \/ toks = <<>>
  \/ /\ Len(toks) % 2 = 1
     /\ \A i \in 1..Len(toks) : IF i % 2 = 1 THEN toks[i] \in Names ELSE toks[i] = Comma

\* Second arm, $($ident:ident,)* : every identifier followed by a comma.
Arm2Matches(toks) ==
  /\ Len(toks) % 2 = 0
  /\ \A i \in 1..Len(toks) : IF i % 2 = 1 THEN toks[i] \in Names ELSE toks[i] = Comma

\* The identifiers the matching arm binds to $ident, in order.
RECURSIVE Idents(_)
Idents(toks) ==
  IF toks = <<>> THEN <<>>
  ELSE IF Head(toks) = Comma THEN Idents(Tail(toks))
  ELSE <<Head(toks)>> \o Idents(Tail(toks))

\* An expansion that loses the last identifier of the repetition.
RECURSIVE ExpandDropsLast(_, _)
ExpandDropsLast(ids, sc) ==
  IF Len(ids) <= 1 THEN sc
  ELSE ExpandDropsLast(Tail(ids),
         [sc EXCEPT ![Head(ids)] =
            [ty |-> "Checker", val |-> Checker(Some(sc[Head(ids)].val))]])

\* The expansion: one `let $ident = $crate::Checker(Some($ident));` per
\* identifier, in order.
RECURSIVE Expand(_, _)
Expand(ids, sc) ==
  IF ids = <<>> THEN sc
  ELSE Expand(Tail(ids),
         [sc EXCEPT ![Head(ids)] =
            [ty |-> "Checker", val |-> Checker(Some(sc[Head(ids)].val))]])

Range(s) == {s[i] : i \in 1..Len(s)}

\* Every token sequence a program may hand to the macro.
Invocations == SeqsUpTo(Token, MaxTokens)

----------------------------------------------------------------------------
(* History of a value: what unbounded-integer arithmetic says about the    *)
(* expression that produced it.                                            *)

InRange(x) == TMin <= x /\ x <= TMax

\* The mathematical result of an operator (y # 0 for "div").
ExactOp(op, x, y) ==
  CASE op = "add" -> x + y
    [] op = "sub" -> x - y
    [] op = "mul" -> x * y
    [] op = "div" -> IF y = 0 THEN 0 ELSE TruncDiv(x, y)

\* The operation has no representable result.
StepFails(op, x, y) == (op = "div" /\ y = 0) \/ ~InRange(ExactOp(op, x, y))

\* ok:     no operation in the ancestry of the value failed.
\* stored: an absent state in the ancestry was stored through deref_mut.
\* exact:  the unbounded-integer value of the expression that produced the
\*         value (0 when there is none: an operation failed, or an absent
\*         state was stored).
Fresh(v) == [ok |-> TRUE, exact |-> v, stored |-> FALSE]

\* History of `l op r`.  An operation on a stored absence is not attempted,
\* so it cannot fail.
HistOp(op, hl, hr) ==
  LET s == hl.stored \/ hr.stored
      o == hl.ok /\ hr.ok /\ (s \/ ~StepFails(op, hl.exact, hr.exact))
  IN  [ok |-> o,
       exact |-> IF o /\ ~s THEN ExactOp(op, hl.exact, hr.exact) ELSE 0,
       stored |-> s]

\* History of a value after `*c = new`, new being written out in the
\* program: Some(v) is the value wrap(v), None has no arithmetic behind it.
HistStore(new) ==
  IF new = None THEN [ok |-> TRUE, exact |-> 0, stored |-> TRUE] ELSE Fresh(new[1])

----------------------------------------------------------------------------
(* The program                                                             *)

NoLast ==
  [kind |-> "init", op |-> "none", form |-> "none",
   l |-> None, r |-> None, dst |-> "none", idents |-> <<>>, eq |-> FALSE]

IsChecker(n) == scope[n].ty = "Checker"

IsRaw(n) == scope[n].ty = "T"

\* The raw T values an expression can name: unwrapped bindings and literals.
RawOperands == {scope[m].val : m \in {x \in Names : IsRaw(x)}} \cup (Lits \cap T)

\* The Option<T> values an expression can name.
OptOperands ==
  {None} \cup {Some(v) : v \in RawOperands}
         \cup {deref(scope[m].val) : m \in {x \in Names : IsChecker(x)}}

\* The Option<T> values a program writes out in a store.
StoreOperands == {None} \cup {Some(v) : v \in RawOperands}

Init ==
  /\ signed \in BOOLEAN
  /\ \E va, vb \in T :
       /\ scope = [n \in Names |-> [ty |-> "T", val |-> IF n = "a" THEN va ELSE vb]]
       /\ hist = [n \in Names |-> Fresh(IF n = "a" THEN va ELSE vb)]
  /\ last = NoLast

\* let_checked![toks]
LetChecked(toks) ==
  /\ Arm1Matches(toks) \/ Arm2Matches(toks)
  /\ LET ids == Idents(toks)
     IN  /\ \A i \in 1..Len(ids) : IsRaw(ids[i])
         /\ \A i, j \in 1..Len(ids) : ids[i] = ids[j] => i = j
         /\ scope' = Expand(ids, scope)
         /\ last' = [NoLast EXCEPT !.kind = "let_checked", !.idents = ids,
                                   !.form = IF Arm1Matches(toks) THEN "arm1" ELSE "arm2"]
  /\ UNCHANGED <<signed, hist>>

\* let lhs = lhs op rhs;  with rhs a Checker.
ArithChecker(op, lhs, rhs) ==
  /\ IsChecker(lhs) /\ IsChecker(rhs)
  /\ scope' = [scope EXCEPT ![lhs].val = OpChecker(op, scope[lhs].val, scope[rhs].val)]
  /\ hist' = [hist EXCEPT ![lhs] =
       HistOp(op, hist[lhs], hist[rhs])]
  /\ last' = [NoLast EXCEPT !.kind = "arith", !.op = op, !.form = "checker",
                            !.l = scope[lhs].val, !.r = scope[rhs].val, !.dst = lhs]
  /\ UNCHANGED signed

\* let lhs = lhs op rhs;  with rhs a raw T.
ArithRaw(op, lhs, rhs) ==
  /\ IsChecker(lhs)
  /\ scope' = [scope EXCEPT ![lhs].val = OpRaw(op, scope[lhs].val, rhs)]
  /\ hist' = [hist EXCEPT ![lhs] =
       HistOp(op, hist[lhs], Fresh(rhs))]
  /\ last' = [NoLast EXCEPT !.kind = "arith", !.op = op, !.form = "raw",
                            !.l = scope[lhs].val, !.r = Some(rhs), !.dst = lhs]
  /\ UNCHANGED signed

\* *n = new;
DerefMut(n, new) ==
  /\ IsChecker(n)
  /\ scope' = [scope EXCEPT ![n].val = deref_mut(scope[n].val, new)]
  /\ hist' = [hist EXCEPT ![n] = HistStore(new)]
  /\ last' = [NoLast EXCEPT !.kind = "deref_mut", !.r = new, !.dst = n]
  /\ UNCHANGED signed

\* *n
Deref(n) ==
  /\ IsChecker(n)
  /\ last' = [NoLast EXCEPT !.kind = "deref", !.l = scope[n].val,
                            !.r = deref(scope[n].val)]
  /\ UNCHANGED <<signed, scope, hist>>

\* n == other;  with other a raw T.
PartialEqRaw(n, other) ==
  /\ IsChecker(n)
  /\ last' = [NoLast EXCEPT !.kind = "eq", !.form = "raw", !.l = scope[n].val,
                            !.r = Some(other), !.eq = EqRaw(scope[n].val, other)]
  /\ UNCHANGED <<signed, scope, hist>>

\* n == other;  with other an Option<T>.
PartialEqOpt(n, other) ==
  /\ IsChecker(n)
  /\ last' = [NoLast EXCEPT !.kind = "eq", !.form = "option", !.l = scope[n].val,
                            !.r = other, !.eq = EqOpt(scope[n].val, other)]
  /\ UNCHANGED <<signed, scope, hist>>

Next ==
  \/ \E toks \in Invocations : LetChecked(toks)
  \/ \E op \in Ops, lhs, rhs \in Names : ArithChecker(op, lhs, rhs)
  \/ \E op \in Ops, lhs \in Names, rhs \in RawOperands : ArithRaw(op, lhs, rhs)
  \/ \E n \in Names, new \in StoreOperands : DerefMut(n, new)
  \/ \E n \in Names : Deref(n)
  \/ \E n \in Names, other \in RawOperands : PartialEqRaw(n, other)
  \/ \E n \in Names, other \in OptOperands : PartialEqOpt(n, other)

Spec == Init /\ [][Next]_vars

----------------------------------------------------------------------------
(* Properties                                                              *)

\* The last step evaluated `l op r` with both operands present.
Applied(op) ==
  last.kind = "arith" /\ last.op = op /\ last.l # None /\ last.r # None

\* The Checker the last arithmetic step produced.
Result == scope[last.dst].val

\* C1: when a + b lies in T's range, wrap(a) + wrap(b) and wrap(a) + b are
\* the present value a + b.
C1_AddInRange ==
  (Applied("add") /\ InRange(last.l[1] + last.r[1]))
    => Result = Some(last.l[1] + last.r[1])

C1_Witness ==
  /\ Applied("add") /\ last.form = "checker"
  /\ last.l[1] = 1 /\ last.r[1] = 2 /\ Result = Some(3)

\* C2: when a + b falls outside T's range, wrap(a) + wrap(b) and
\* wrap(a) + b are absent, never a wrapped-around present value.
C2_AddOverflow ==
  (Applied("add") /\ ~InRange(last.l[1] + last.r[1])) => Result = None

C2_Witness ==
  /\ Applied("add") /\ last.form = "raw"
  /\ last.l[1] = TMax /\ last.r[1] = 1 /\ Result = None

\* C3: dividing any wrap(a) by zero, as wrap(0) or as a raw 0, is absent.
C3_DivByZero ==
  (Applied("div") /\ last.r[1] = 0) => Result = None

C3_Witness ==
  /\ Applied("div") /\ last.form = "checker"
  /\ last.l[1] = 1 /\ last.r[1] = 0 /\ Result = None

\* An absent operand makes the result absent.
AbsorbOperand ==
  (last.kind = "arith" /\ (last.l = None \/ last.r = None)) => Result = None

\* An arithmetic step on an absent binding leaves it absent.
AbsorbStep ==
  (last'.kind = "arith" /\ scope[last'.dst].val = None)
    => scope'[last'.dst].val = None

\* C4: for each operator, an absent left operand, or an absent right
\* Checker operand, makes the result absent whatever the other operand is;
\* so once a chain of operations is absent it stays absent.
C4_Absorption == []AbsorbOperand /\ [][AbsorbStep]_vars

C4_Witness ==
  /\ last.kind = "arith" /\ last.form = "checker"
  /\ last.l # None /\ last.r = None /\ Result = None

\* C5: a Checker equals a raw y iff it is present with payload y, and equals
\* an Option iff both are absent or both are present with equal payloads; so
\* wrap(x) == x, wrap(x) == Some(x), absent == None, and absent equals no
\* raw value.
C5_Equality ==
  last.kind = "eq" =>
    /\ last.form = "raw" =>
         (last.eq <=> (last.l # None /\ last.l[1] = last.r[1]))
    /\ last.form = "option" =>
         (last.eq <=> \/ last.l = None /\ last.r = None
                      \/ last.l # None /\ last.r # None /\ last.l[1] = last.r[1])

C5_Witness ==
  /\ last.kind = "eq" /\ last.form = "raw"
  /\ last.l = None /\ last.r = Some(0) /\ ~last.eq

\* C6: for an unsigned T, wrap(a) - wrap(b) and wrap(a) - b are absent when
\* a < b and are the present value a - b when a >= b.
C6_UnsignedSub ==
  (~signed /\ Applied("sub")) =>
    Result = IF last.l[1] < last.r[1] THEN None ELSE Some(last.l[1] - last.r[1])

C6_Witness ==
  /\ ~signed /\ Applied("sub") /\ last.form = "raw"
  /\ last.l[1] = 0 /\ last.r[1] = 1 /\ Result = None

\* q is a / b truncated toward zero: the remainder is smaller than b in
\* magnitude and is zero or has the sign of a.
IsTruncatedQuotient(q, a, b) ==
  LET rem == a - q * b
  IN  Abs(rem) < Abs(b) /\ (rem = 0 \/ (rem < 0) = (a < 0))

\* C7: for a signed T, MIN / -1 is absent in both operand forms, and every
\* other division by a nonzero b is the present truncated quotient.
C7_SignedDiv ==
  (signed /\ Applied("div") /\ last.r[1] # 0) =>
    IF last.l[1] = TMin /\ last.r[1] = -1
    THEN Result = None
    ELSE Result # None /\ IsTruncatedQuotient(Result[1], last.l[1], last.r[1])

C7_Witness ==
  /\ signed /\ Applied("div") /\ last.form = "raw"
  /\ last.l[1] = TMin /\ last.r[1] = -1 /\ Result = None

\* C8 as claimed: a Checker is absent only if an operation in its ancestry
\* failed, stores through the view included among the steps.
C8_AbsentOnlyByFailure ==
  \A n \in Names : (IsChecker(n) /\ scope[n].val = None) => ~hist[n].ok

\* C8 as amended: a Checker is absent only if an operation in its ancestry
\* failed or an absent state was stored through deref_mut in its ancestry.
C8_AbsentByFailureOrStore ==
  \A n \in Names :
    (IsChecker(n) /\ scope[n].val = None) => (~hist[n].ok \/ hist[n].stored)

C8_Witness ==
  \E n \in Names :
    /\ IsChecker(n) /\ scope[n].val = None
    /\ hist[n].ok /\ hist[n].stored /\ last.kind = "arith"

\* C9: let_checked! rebinds each listed name to the present Checker of its
\* prior value and leaves every other binding alone, whichever arm matched;
\* with no names it changes nothing.
LetCheckedStep ==
  last'.kind = "let_checked" =>
    \A n \in Names :
      scope'[n] = IF n \in Range(last'.idents)
                  THEN [ty |-> "Checker", val |-> Some(scope[n].val)]
                  ELSE scope[n]

C10_ChainSound ==
  \A n \in Names :
    (IsChecker(n) /\ ~hist[n].stored) =>
      /\ scope[n].val # None <=> hist[n].ok
      /\ scope[n].val # None => scope[n].val[1] = hist[n].exact

C10_Witness ==
  /\ last.kind = "arith" /\ last.op = "mul" /\ last.l = None
  /\ ~hist[last.dst].ok /\ ~hist[last.dst].stored /\ Result = None

====
